---- MODULE Spec2Model ----
(***************************************************************************)
(* Model of hne-data-import-transform.py: the Streamlit script that turns  *)
(* a product spreadsheet into a WebToffee import table.  Text values are   *)
(* sequences of one-character strings, so that cleaning, slug derivation,  *)
(* sorting, joining and splitting are computed character by character.     *)
(***************************************************************************)
EXTENDS Integers, Sequences, FiniteSets, TLC

VARIABLES
    df,               \* the uploaded sheet: a sequence of source rows
    attribute_columns,\* the candidate attribute columns of the sheet, in sheet order
    attribute_config, \* the configured attributes, in dict insertion order
    pc,               \* position of the script run
    grouped,          \* the groups still to be iterated by the per-group loop
    output_rows,      \* the list of record dicts
    warned,           \* st.warning was shown
    csv,              \* the table handed to the download button (header, rows)
    raw,              \* clean_attr_values driver: the list of raw values
    cleaned           \* clean_attr_values driver: the successive results

vars == <<df, attribute_columns, attribute_config, pc, grouped, output_rows,
          warned, csv, raw, cleaned>>

flattenVars == <<df, attribute_columns, attribute_config, grouped, output_rows,
                 warned, csv>>

cleanVars == <<raw, cleaned>>

-----------------------------------------------------------------------------
(* Bounds of the model *)

MaxRows == 2

MaxLen == 2

MaxVals == 2

-----------------------------------------------------------------------------
(* Text *)

\* A missing cell (pandas NaN): a value no text is equal to.
NaN == <<"NaN">>

notna(v) == v # NaN

\* Code point of the characters the model uses (Python compares str by code point).
Code(c) ==
    CASE c = "\t" -> 9
      [] c = " " -> 32
      [] c = "," -> 44
      [] c = "-" -> 45
      [] c = "0" -> 48
      [] c = "1" -> 49
      [] c = "2" -> 50
      [] c = "3" -> 51
      [] c = "4" -> 52
      [] c = "A" -> 65
      [] c = "B" -> 66
      [] c = "C" -> 67
      [] c = "K" -> 75
      [] c = "a" -> 97
      [] c = "b" -> 98
      [] c = "c" -> 99
      [] c = "k" -> 107
      [] c = "|" -> 124

\* str.lower on one character.
LowerChar(c) == IF Code(c) >= 65 /\ Code(c) <= 90
                THEN CHOOSE d \in {"a", "b", "c", "k"} : Code(d) = Code(c) + 32
                ELSE c

\* str.upper on one character.
UpperChar(c) == IF Code(c) >= 97 /\ Code(c) <= 122
                THEN CHOOSE d \in {"A", "B", "C", "K"} : Code(d) = Code(c) - 32
                ELSE c

lower(s) == [i \in 1..Len(s) |-> LowerChar(s[i])]

upper(s) == [i \in 1..Len(s) |-> UpperChar(s[i])]

\* str.replace(old, new) for a one-character old and a text new.
RECURSIVE replace(_, _, _)
replace(s, old, new) ==
    IF s = <<>> THEN <<>>
    ELSE (IF Head(s) = old THEN new ELSE <<Head(s)>>) \o replace(Tail(s), old, new)

IsSpace(c) == c \in {" ", "\t"}

RECURSIVE lstrip(_)
lstrip(s) == IF s # <<>> /\ IsSpace(Head(s)) THEN lstrip(Tail(s)) ELSE s

RECURSIVE rstrip(_)
rstrip(s) == IF s # <<>> /\ IsSpace(s[Len(s)])
             THEN rstrip(SubSeq(s, 1, Len(s) - 1)) ELSE s

\* str.strip(): leading and trailing whitespace removed.
strip(s) == rstrip(lstrip(s))

\* Python's < on str.
StrLess(s, t) ==
    \/ /\ Len(s) < Len(t)
       /\ \A j \in 1..Len(s) : s[j] = t[j]
    \/ \E i \in 1..(IF Len(s) < Len(t) THEN Len(s) ELSE Len(t)) :
          /\ \A j \in 1..(i - 1) : s[j] = t[j]
          /\ Code(s[i]) < Code(t[i])

\* sorted(set(values)): the distinct texts in ascending order.
RECURSIVE sorted(_)
sorted(S) ==
    IF S = {} THEN <<>>
    ELSE LET m == CHOOSE x \in S : \A y \in S : x = y \/ StrLess(x, y)
         IN  <<m>> \o sorted(S \ {m})

\* '|'.join(values)
RECURSIVE join(_)
join(vs) ==
    IF vs = <<>> THEN <<>>
    ELSE IF Len(vs) = 1 THEN vs[1]
    ELSE vs[1] \o <<"|">> \o join(Tail(vs))

\* text.split('|')
RECURSIVE split(_)
split(s) ==
    IF \A i \in 1..Len(s) : s[i] # "|" THEN <<s>>
    ELSE LET k == CHOOSE i \in 1..Len(s) :
                     s[i] = "|" /\ \A j \in 1..(i - 1) : s[j] # "|"
         IN  <<SubSeq(s, 1, k - 1)>> \o split(SubSeq(s, k + 1, Len(s)))

Range(f) == {f[i] : i \in DOMAIN f}

\* Cleaning that also escapes every pipe by doubling it.
CleanValueDoubledPipes(v) ==
    strip(replace(replace(replace(v, ",", <<"|">>), "|", <<"|", "|">>), " ", <<>>))

\* The value-cleaning of one kept value.
CleanValue(v) == strip(replace(replace(v, ",", <<"|">>), " ", <<>>))

\* The filter of the list comprehension: not missing and not blank.
Kept(v) == notna(v) /\ strip(v) # <<>>

RECURSIVE clean_attr_values(_)
clean_attr_values(values) ==
    IF values = <<>> THEN <<>>
    ELSE (IF Kept(Head(values)) THEN <<CleanValue(Head(values))>> ELSE <<>>)
         \o clean_attr_values(Tail(values))

-----------------------------------------------------------------------------
(* The sheet and the attribute configuration *)

\* Candidate attribute column names.  ColB and ColAB derive the same slug.
ColAB == <<"A", " ", "B">>

ColB == <<"a", "-", "b">>

ColC == <<"C">>

Headers == {<<ColAB, ColC>>, <<ColAB, ColB>>}

\* The three checkboxes of one column's expander.
Decisions ==
    { [use_attr |-> FALSE, is_variation |-> FALSE, visible_info |-> FALSE],
      [use_attr |-> TRUE, is_variation |-> FALSE, visible_info |-> TRUE],
      [use_attr |-> TRUE, is_variation |-> TRUE, visible_info |-> FALSE] }

Slug(col) == replace(lower(col), " ", <<"-">>)

\* The loop that fills attribute_config: one entry per column ticked "use".
RECURSIVE Configure(_, _)
Configure(cols, decisions) ==
    IF cols = <<>> THEN <<>>
    ELSE (IF Head(decisions).use_attr
          THEN << [col |-> Head(cols),
                   slug |-> Slug(Head(cols)),
                   is_variation |-> Head(decisions).is_variation,
                   visible_info |-> Head(decisions).visible_info] >>
          ELSE <<>>)
         \o Configure(Tail(cols), Tail(decisions))

\* Product-name cells: two names, the later-sorting one listed first, and a
\* missing name.
ProductNames == {<<"b">>, <<"a">>, NaN}

\* Attribute cells of the sheets that exercise the grouping.
PlainCells == {NaN, <<"a">>}

\* Attribute cells of the sheets that exercise the value handling: text with
\* a comma and text with a space.
CellValues == {NaN, <<"a">>, <<"b", ",", "a">>, <<"a", " ", "b">>}

\* The SKU cell of the i-th sheet row.
Sku(i) == <<"k", CHOOSE d \in {"1", "2", "3", "4"} : Code(d) = 48 + i>>

category == <<"c">>

brand_name == <<"a", " ", "k">>

\* The possible i-th rows of a sheet with two attribute columns.
Rows(i, names, cells) ==
    { [product |-> p, sku |-> Sku(i), categories |-> category, brand |-> NaN, cells |-> c] :
        p \in names, c \in [1..2 -> cells] }

RECURSIVE Frames(_, _, _)
Frames(n, names, cells) ==
    IF n = 0 THEN {<<>>}
    ELSE {Append(d, r) : d \in Frames(n - 1, names, cells), r \in Rows(n, names, cells)}

\* The sheets of at most MaxRows rows.
Datasets(names, cells) == UNION {Frames(n, names, cells) : n \in 0..MaxRows}

-----------------------------------------------------------------------------
(* Data frame helpers *)

ColIndex(col) == CHOOSE i \in 1..Len(attribute_columns) : attribute_columns[i] = col

\* row[col] for an attribute column.
Cell(row, col) == row.cells[ColIndex(col)]

\* group[col]
Column(group, col) == [i \in 1..Len(group) |-> Cell(group[i], col)]

IsNotNa(v) == notna(v)

\* Series.dropna()
dropna(values) == SelectSeq(values, IsNotNa)

\* Series.unique(): the distinct values in order of first appearance.
RECURSIVE unique(_)
unique(values) ==
    IF values = <<>> THEN <<>>
    ELSE LET rest == unique(SubSeq(values, 1, Len(values) - 1))
             last == values[Len(values)]
         IN  IF last \in Range(rest) THEN rest ELSE Append(rest, last)

\* groupby keys left in order of first appearance (sort=False).
GroupKeysUnsorted(frame) ==
    unique(dropna([i \in 1..Len(frame) |-> frame[i].product]))

\* groupby keys: the distinct non-missing product names, ascending (sort=True).
GroupKeys(frame) == sorted({frame[i].product : i \in 1..Len(frame)} \ {NaN})

RowsOf(frame, key) ==
    LET Has(r) == r.product = key IN SelectSeq(frame, Has)

\* df.groupby(product_column): (product_name, group) pairs in iteration order.
GroupBy(frame) ==
    LET keys == GroupKeys(frame)
    IN  [i \in 1..Len(keys) |-> [product_name |-> keys[i], group |-> RowsOf(frame, keys[i])]]

\* dict item assignment
Put(d, k, v) == [x \in DOMAIN d \cup {k} |-> IF x = k THEN v ELSE d[x]]

\* dict.get(k, default)
Get(d, k, default) == IF k \in DOMAIN d THEN d[k] ELSE default

Field(name) == <<name, <<>>>>

AttrField(prefix, slug) == <<prefix, slug>>

-----------------------------------------------------------------------------
(* One iteration of the per-group loop *)

ParentSku(group) ==
    replace(upper(brand_name), " ", <<>>) \o <<"-">> \o group[1].sku

BaseData(product_name, group) ==
    LET keys == {"product_type", "post_type", "post_title", "brand", "sku", "categories",
                 "stock_status", "short_description", "description", "images"}
    IN  [k \in {Field(n) : n \in keys} |->
            CASE k = Field("product_type") -> <<"variable">>
              [] k = Field("post_type") -> <<"product">>
              [] k = Field("post_title") -> product_name
              [] k = Field("brand") -> brand_name
              [] k = Field("sku") -> ParentSku(group)
              [] k = Field("categories") -> group[1].categories
              [] k = Field("stock_status") -> <<"instock">>
              [] OTHER -> <<>>]

\* The parent attributes loop over attribute_config.items().
RECURSIVE ParentAttributes(_, _, _)
ParentAttributes(base_data, group, configs) ==
    IF configs = <<>> THEN base_data
    ELSE LET config == Head(configs)
             slug == config.slug
             attr_values == clean_attr_values(unique(dropna(Column(group, config.col))))
             joined_values == join(sorted(Range(attr_values)))
             d1 == Put(base_data, AttrField("attribute:pa_", slug), joined_values)
             d2 == Put(d1, AttrField("attribute_data:pa_", slug),
                       IF config.visible_info THEN <<"0|1|1">> ELSE <<"0|0|1">>)
             d3 == Put(d2, AttrField("attribute_variation:pa_", slug), <<"1">>)
             d4 == Put(d3, AttrField("attribute_default:pa_", slug), <<>>)
         IN  ParentAttributes(IF attr_values = <<>> THEN base_data ELSE d4,
                              group, Tail(configs))

\* parent_values: the parent's value list for a slug, as a set.
ParentValues(base_data, slug) ==
    LET parent_value == Get(base_data, AttrField("attribute:pa_", slug), <<>>)
    IN  IF parent_value # <<>> THEN Range(split(parent_value)) ELSE {}

\* mask: the rows of the group that agree with row on every other configured
\* column, a missing group value matching anything.
PeerMask(group, row, col) ==
    {i \in 1..Len(group) :
        \A k \in 1..Len(attribute_config) :
            attribute_config[k].col # col =>
                \/ /\ notna(Cell(group[i], attribute_config[k].col))
                   /\ Cell(group[i], attribute_config[k].col) = Cell(row, attribute_config[k].col)
                \/ ~notna(Cell(group[i], attribute_config[k].col))}

\* The value written for a variation attribute of a row.
VariationValue(row, col) == strip(Cell(row, col))

\* The attribute loop of one variation row.
RECURSIVE VariationAttributes(_, _, _)
VariationAttributes(variation_data, row, configs) ==
    IF configs = <<>> THEN variation_data
    ELSE LET config == Head(configs)
             key == AttrField("attribute_data:pa_", config.slug)
             blank == Put(variation_data, key, <<>>)
             value == VariationValue(row, config.col)
             populate == /\ config.is_variation
                         /\ notna(Cell(row, config.col))
                         /\ value # <<>>
         IN  VariationAttributes(IF populate THEN Put(blank, key, value) ELSE blank,
                                 row, Tail(configs))

VariationData(product_name, row, parent_sku) ==
    LET keys == {"product_type", "post_type", "post_title", "sku", "parent_sku",
                 "regular_price", "stock_status", "images"}
    IN  [k \in {Field(n) : n \in keys} |->
            CASE k = Field("product_type") -> <<"variation">>
              [] k = Field("post_type") -> <<"product_variation">>
              [] k = Field("post_title") -> product_name
              [] k = Field("sku") -> row.sku
              [] k = Field("parent_sku") -> parent_sku
              [] k = Field("regular_price") -> <<"0">>
              [] k = Field("stock_status") -> <<"instock">>
              [] OTHER -> <<>>]

\* A variations loop that skips the rows whose attribute cells are all missing.
VariationsSkipMissing(product_name, group) ==
    LET HasValue(r) == \E c \in 1..Len(r.cells) : notna(r.cells[c])
        present == SelectSeq(group, HasValue)
    IN  [i \in 1..Len(present) |->
            VariationAttributes(VariationData(product_name, present[i], ParentSku(group)),
                                present[i], attribute_config)]

\* The variations loop: one record per row of the group, in row order.
Variations(product_name, group) ==
    [i \in 1..Len(group) |->
        VariationAttributes(VariationData(product_name, group[i], ParentSku(group)),
                            group[i], attribute_config)]

\* The records one loop iteration appends: the parent, then the variations.
GroupRecords(product_name, group) ==
    <<ParentAttributes(BaseData(product_name, group), group, attribute_config)>>
    \o Variations(product_name, group)

-----------------------------------------------------------------------------
(* The output table *)

column_order ==
    << Field("product_type"), Field("post_type"), Field("post_title"), Field("sku"),
       Field("parent_sku"), Field("regular_price"), Field("stock_status"),
       Field("categories"), Field("short_description"), Field("description"),
       Field("images") >>

RECURSIVE attr_columns(_)
attr_columns(configs) ==
    IF configs = <<>> THEN <<>>
    ELSE << AttrField("attribute:pa_", Head(configs).slug),
            AttrField("attribute_data:pa_", Head(configs).slug),
            AttrField("attribute_default:pa_", Head(configs).slug),
            AttrField("attribute_variation:pa_", Head(configs).slug),
            AttrField("meta:attribute_pa_", Head(configs).slug) >>
         \o attr_columns(Tail(configs))

all_columns ==
    LET NotBase(c) == c \notin Range(column_order)
    IN  column_order \o SelectSeq(attr_columns(attribute_config), NotBase)

\* A record projected on all_columns, a column it lacks or a missing value
\* written as the empty text, as to_csv does.
CsvRow(record) ==
    [i \in 1..Len(all_columns) |->
        LET v == Get(record, all_columns[i], NaN)
        IN  IF notna(v) THEN v ELSE <<>>]

NoTable == [produced |-> FALSE, header |-> <<>>, rows |-> <<>>]

Table(records) ==
    [produced |-> TRUE,
     header |-> all_columns,
     rows |-> [i \in 1..Len(records) |-> CsvRow(records[i])]]

-----------------------------------------------------------------------------
(* The script run *)

IdleClean == raw = <<>> /\ cleaned = <<>>

\* The state before the button is pressed, for a sheet of the given cells.
Ready(names, cells) ==
    /\ IdleClean
    /\ pc = "ready"
    /\ attribute_columns \in Headers
    /\ \E decisions \in [1..2 -> Decisions] :
          attribute_config = Configure(attribute_columns, decisions)
    /\ df \in Datasets(names, cells)
    /\ grouped = <<>>
    /\ output_rows = <<>>
    /\ warned = FALSE
    /\ csv = NoTable

Init == Ready(ProductNames, PlainCells)

InitValues == Ready(ProductNames \ {NaN}, CellValues)

\* The button is pressed: groupby, output_rows = [], df['brand'] = brand_name.
Generate ==
    /\ pc = "ready"
    /\ df' = [i \in 1..Len(df) |-> [df[i] EXCEPT !.brand = brand_name]]
    /\ grouped' = GroupBy(df')
    /\ output_rows' = <<>>
    /\ pc' = "loop"
    /\ UNCHANGED <<attribute_columns, attribute_config, warned, csv, cleanVars>>

\* A loop iteration with an empty attribute_config: st.warning, st.stop.
Halt ==
    /\ pc = "loop"
    /\ grouped # <<>>
    /\ Len(attribute_config) = 0
    /\ warned' = TRUE
    /\ pc' = "stopped"
    /\ UNCHANGED <<df, attribute_columns, attribute_config, grouped, output_rows, csv,
                   cleanVars>>

\* A loop iteration with attributes configured.
ProcessGroup ==
    /\ pc = "loop"
    /\ grouped # <<>>
    /\ Len(attribute_config) # 0
    /\ output_rows' = output_rows
                        \o GroupRecords(Head(grouped).product_name, Head(grouped).group)
    /\ grouped' = Tail(grouped)
    /\ UNCHANGED <<df, attribute_columns, attribute_config, pc, warned, csv, cleanVars>>

\* After the loop: the data frame of the records, the column fill and reorder,
\* the CSV and the download button.
BuildTable ==
    /\ pc = "loop"
    /\ grouped = <<>>
    /\ csv' = Table(output_rows)
    /\ pc' = "done"
    /\ UNCHANGED <<df, attribute_columns, attribute_config, grouped, output_rows, warned,
                   cleanVars>>

Next == Generate \/ Halt \/ ProcessGroup \/ BuildTable

Spec == Init /\ [][Next]_vars

\* The same script run on sheets whose attribute cells hold commas and spaces.
SpecValues == InitValues /\ [][Next]_vars

-----------------------------------------------------------------------------
(* Reading the output *)

\* The cell of an output table row under a column name.
Out(row, field) == row[CHOOSE i \in 1..Len(csv.header) : csv.header[i] = field]

IsParentRow(row) == Out(row, Field("product_type")) = <<"variable">>

IsVariationRow(row) == Out(row, Field("product_type")) = <<"variation">>

IsVariationRecord(rec) == rec[Field("product_type")] = <<"variation">>

IsParentRecord(rec) == rec[Field("product_type")] = <<"variable">>

\* The product names that form a group, and the sheet rows of a name.
GroupNames == {df[i].product : i \in 1..Len(df)} \ {NaN}

SheetRows(p) == {i \in 1..Len(df) : df[i].product = p}

FirstRow(p) == CHOOSE i \in SheetRows(p) : \A j \in SheetRows(p) : i <= j

\* The sheet row a variation record was made from, and the rows of its group.
SourceRow(rec) == df[CHOOSE i \in 1..Len(df) : df[i].sku = rec[Field("sku")]]

SourceGroup(rec) == RowsOf(df, SourceRow(rec).product)

\* The parent record of a variation record.
ParentOf(rec) ==
    output_rows[CHOOSE i \in 1..Len(output_rows) :
                    /\ IsParentRecord(output_rows[i])
                    /\ output_rows[i][Field("sku")] = rec[Field("parent_sku")]]

\* The number of distinct cleaned values of a column among the peer-masked rows.
PeerCount(group, row, col) ==
    LET peers == PeerMask(group, row, col)
    IN  Cardinality({CleanValue(Cell(group[i], col)) :
                        i \in {j \in peers : Kept(Cell(group[j], col))}})

AttrPrefixes == {"attribute:pa_", "attribute_data:pa_", "attribute_default:pa_",
                 "attribute_variation:pa_", "meta:attribute_pa_"}

-----------------------------------------------------------------------------
(* C1: a variation attribute whose peer-masked distinct-value count equals   *)
(* the parent's distinct-value count leaves the variation's attribute_data   *)
(* column blank.                                                            *)
BlankWhenPeerCountEqualsParent ==
    \A n \in 1..Len(output_rows) : \A k \in 1..Len(attribute_config) :
        LET rec == output_rows[n]
            config == attribute_config[k]
        IN  (/\ IsVariationRecord(rec)
             /\ config.is_variation
             /\ notna(Cell(SourceRow(rec), config.col))
             /\ PeerCount(SourceGroup(rec), SourceRow(rec), config.col)
                  = Cardinality(ParentValues(ParentOf(rec), config.slug)))
            => rec[AttrField("attribute_data:pa_", config.slug)] = <<>>

(* C2: with an empty attribute configuration no record is appended and no   *)
(* table is produced: the run ends halted with the warning.                 *)
EmptyConfigHalts ==
    Len(attribute_config) = 0 =>
        /\ output_rows = <<>>
        /\ ~csv.produced
        /\ pc \in {"ready", "loop", "stopped"}
        /\ (pc = "stopped" => warned)

(* C3: with attributes configured, the output holds for every group exactly *)
(* one 'variable' record and one 'variation' record per row of the group.   *)
OneParentAndAllVariations ==
    (pc = "done" /\ Len(attribute_config) # 0) =>
        /\ csv.produced
        /\ \A p \in GroupNames :
              /\ Cardinality({i \in 1..Len(csv.rows) :
                    IsParentRow(csv.rows[i]) /\ Out(csv.rows[i], Field("post_title")) = p}) = 1
              /\ Cardinality({i \in 1..Len(csv.rows) :
                    IsVariationRow(csv.rows[i]) /\ Out(csv.rows[i], Field("post_title")) = p})
                   = Cardinality(SheetRows(p))
              /\ \A i \in SheetRows(p) : \E j \in 1..Len(csv.rows) :
                    IsVariationRow(csv.rows[j]) /\ Out(csv.rows[j], Field("sku")) = df[i].sku

\* A finished table for a group of two rows whose attribute cells are all missing.
OneParentAndAllVariationsWitness ==
    /\ pc = "done"
    /\ Len(attribute_config) # 0
    /\ \E p \in GroupNames :
          /\ Cardinality(SheetRows(p)) = 2
          /\ \A i \in SheetRows(p) : \A c \in 1..2 : df[i].cells[c] = NaN

(* C4, as stated: groups appear in the output in the order in which their   *)
(* product name first appears in the sheet.                                 *)
GroupsInFirstAppearanceOrder ==
    pc = "done" =>
        \A i, j \in 1..Len(csv.rows) :
            LET A == Out(csv.rows[i], Field("post_title"))
                B == Out(csv.rows[j], Field("post_title"))
            IN  (A # B /\ FirstRow(A) < FirstRow(B)) => i < j

(* C4, amended: groups appear in the output in ascending order of their     *)
(* product name: all records of a group whose name sorts lower precede all  *)
(* records of a group whose name sorts higher.                              *)
GroupsInSortedNameOrder ==
    pc = "done" =>
        \A i, j \in 1..Len(csv.rows) :
            LET A == Out(csv.rows[i], Field("post_title"))
                B == Out(csv.rows[j], Field("post_title"))
            IN  (A # B /\ StrLess(A, B)) => i < j

\* A finished table of two groups, the one whose name sorts higher first in the sheet.
GroupsInSortedNameOrderWitness ==
    /\ pc = "done"
    /\ Len(csv.rows) >= 4
    /\ \E p, q \in GroupNames : FirstRow(p) < FirstRow(q) /\ StrLess(q, p)

(* C5: the parent's attribute:pa_ column, read as a pipe-separated list,    *)
(* holds no duplicate and is in ascending order.                            *)
ParentListSortedAndDistinct ==
    \A n \in 1..Len(output_rows) : \A k \in 1..Len(attribute_config) :
        LET rec == output_rows[n]
            key == AttrField("attribute:pa_", attribute_config[k].slug)
        IN  (IsParentRecord(rec) /\ key \in DOMAIN rec) =>
                LET listed == split(rec[key])
                IN  \A a, b \in 1..Len(listed) : a < b => StrLess(listed[a], listed[b])

(* C6: an attribute that is not a variation attribute has all five of its   *)
(* columns blank on every variation record of the output.                   *)
NonVariationAttributeBlank ==
    pc = "done" =>
        \A k \in 1..Len(attribute_config) : \A i \in 1..Len(csv.rows) :
            (~attribute_config[k].is_variation /\ IsVariationRow(csv.rows[i])) =>
                \A prefix \in AttrPrefixes :
                    Out(csv.rows[i], AttrField(prefix, attribute_config[k].slug)) = <<>>

(* C8: every record of the output table, parent or variation, has           *)
(* regular_price '0'.                                                       *)
RegularPriceZeroOnAllRows ==
    pc = "done" =>
        \A i \in 1..Len(csv.rows) : Out(csv.rows[i], Field("regular_price")) = <<"0">>

(* C9: two distinct configured columns have distinct slugs, so the output   *)
(* column names built from them are pairwise distinct.                      *)
SlugsUnique ==
    csv.produced =>
        /\ \A i, j \in 1..Len(attribute_config) :
              i # j => attribute_config[i].slug # attribute_config[j].slug
        /\ \A i, j \in 1..Len(csv.header) : i # j => csv.header[i] # csv.header[j]

(* C10: a populated attribute_data:pa_ column of a variation record holds   *)
(* the row's cleaned value, which is one of the values listed in the        *)
(* attribute:pa_ column of the variation's parent record.                   *)
VariationValueListedInParent ==
    \A n \in 1..Len(output_rows) : \A k \in 1..Len(attribute_config) :
        LET rec == output_rows[n]
            config == attribute_config[k]
            key == AttrField("attribute_data:pa_", config.slug)
        IN  (IsVariationRecord(rec) /\ config.is_variation /\ rec[key] # <<>>) =>
                /\ rec[key] = CleanValue(Cell(SourceRow(rec), config.col))
                /\ rec[key] \in ParentValues(ParentOf(rec), config.slug)

-----------------------------------------------------------------------------
(* clean_attr_values applied to bounded lists of raw values *)

RawChars == {"a", ",", " ", "\t"}

RawTexts == UNION {[1..n -> RawChars] : n \in 0..MaxLen}

RawValues == RawTexts \cup {NaN}

RawLists == UNION {[1..n -> RawValues] : n \in 0..MaxVals}

IdleFlatten ==
    /\ df = <<>>
    /\ attribute_columns = <<>>
    /\ attribute_config = <<>>
    /\ grouped = <<>>
    /\ output_rows = <<>>
    /\ warned = FALSE
    /\ csv = [produced |-> FALSE, header |-> <<>>, rows |-> <<>>]

InitClean ==
    /\ IdleFlatten
    /\ pc = "clean"
    /\ raw \in RawLists
    /\ cleaned = <<>>

\* One call of clean_attr_values; the second call is fed the result of the first.
CleanOnce ==
    /\ pc = "clean"
    /\ cleaned = <<>>
    /\ cleaned' = <<clean_attr_values(raw)>>
    /\ UNCHANGED <<pc, raw, flattenVars>>

CleanAgain ==
    /\ pc = "clean"
    /\ Len(cleaned) = 1
    /\ cleaned' = Append(cleaned, clean_attr_values(cleaned[1]))
    /\ UNCHANGED <<pc, raw, flattenVars>>

NextClean == CleanOnce \/ CleanAgain

SpecClean == InitClean /\ [][NextClean]_vars

-----------------------------------------------------------------------------
(* C7: value cleaning is idempotent: cleaning the result of a cleaning      *)
(* returns it unchanged, every cleaned value is non-empty and none is       *)
(* discarded by the second cleaning.                                        *)
CleanIdempotent ==
    Len(cleaned) = 2 =>
        /\ cleaned[2] = cleaned[1]
        /\ \A i \in 1..Len(cleaned[1]) : cleaned[1][i] # <<>>
        /\ Len(cleaned[2]) = Len(cleaned[1])

\* A list with a discarded value and a value that cleaning changes, cleaned twice.
CleanIdempotentWitness ==
    /\ Len(cleaned) = 2
    /\ Len(raw) = 2
    /\ Len(cleaned[1]) = 1
    /\ cleaned[1][1] \notin Range(raw)

====
